---- MODULE Spec2Model ----
(***************************************************************************)
(* AliseFSSeg: the Lightning module for fully supervised segmentation      *)
(* (src/src/alise_minimal/lightning_module/fully_supervised_segmentation.py)*)
(*                                                                         *)
(* State: the three metric collections cloned in __init__ (objects: a      *)
(* prefix and a reference into heap, which holds the accumulated state of  *)
(* every collection object), the attribute save_test_metrics, the logging  *)
(* sink (every entry log / log_dict wrote),                                *)
(* and a record of the last call (what it returned or raised, what it      *)
(* passed to compute and log_dict, the tensors forward saw).  hist, since   *)
(* and epochs are history variables: the batches each phase's step hook    *)
(* has updated its collection with since construction and since the        *)
(* phase's last epoch end, and the epoch ends each phase has completed.    *)
(* One action per method of the class.  A callee that raises ends the      *)
(* method where it stands, and the run with it (the caller is the          *)
(* trainer, which does not resume a failed hook).                          *)
(***************************************************************************)
EXTENDS Integers, Sequences, FiniteSets, TLC

VARIABLES train_metrics, val_metrics, test_metrics, save_test_metrics,
          heap, logged, last, device, hist, since, epochs, ncalls

vars == <<train_metrics, val_metrics, test_metrics, save_test_metrics,
          heap, logged, last, device, hist, since, epochs, ncalls>>

(***************************************************************************)
(* Bounds                                                                  *)
(***************************************************************************)
\* shape of the model output (B, T, C, H, W), label slots L, decoder output F
DimB == 2
DimT == 2
DimC == 2
DimH == 1
DimW == 2
DimL == 2
DimF == 2
\* number of distinct batches the data pipeline hands to the hooks
NBatches == 2
\* calls in one run, and the calls among them in which a callee may raise
MaxCalls == 4
MaxFaultCalls == 2
\* forward's input family: scale of the ramp, value of the spike
MaxScale == 2
MaxSpike == 2

(***************************************************************************)
(* Tensors: a shape and the elements in row-major order.  Indices are      *)
(* 0-based tuples, as in torch.                                            *)
(***************************************************************************)
\* a function on 1..n as the sequence of its values: worked out once, where it
\* is built, and not at every reading
AsSeq(f) == SubSeq(f, 1, Len(f))

RECURSIVE Prod(_)
Prod(s) == IF s = <<>> THEN 1 ELSE Head(s) * Prod(Tail(s))

RECURSIVE SumSeq(_)
SumSeq(s) == IF s = <<>> THEN 0 ELSE Head(s) + SumSeq(Tail(s))

\* the row-major strides of a shape
Strides(s) == AsSeq([i \in 1..Len(s) |-> Prod(SubSeq(s, i + 1, Len(s)))])

\* offset of an index under strides st, and the index at offset n of shape s
Ravel(idx, st) == SumSeq(AsSeq([i \in 1..Len(st) |-> idx[i] * st[i]]))

Unravel(n, s, st) == AsSeq([i \in 1..Len(s) |-> (n \div st[i]) % s[i]])

At(t, idx) == t.data[Ravel(idx, Strides(t.shape)) + 1]

Numel(t) == Prod(t.shape)

(***************************************************************************)
(* einops.rearrange.  A pattern "a b c -> a (c b)" is an axis permutation  *)
(* (perm[i] is the input axis that lands at position i) followed by the    *)
(* merge of each parenthesised group (groups[j] is the number of permuted  *)
(* axes output axis j is made of); the merge keeps the row-major order.    *)
(***************************************************************************)
Permute(t, perm) ==
    LET r   == Len(perm)
        ns  == AsSeq([i \in 1..r |-> t.shape[perm[i]]])
        nst == Strides(ns)
        ost == Strides(t.shape)
        \* the stride, in t, of the axis that lands at position i
        pst == AsSeq([i \in 1..r |-> ost[perm[i]]])
    IN  [shape |-> ns,
         data  |-> AsSeq([n \in 1..Prod(ns) |->
                      t.data[Ravel(Unravel(n - 1, ns, nst), pst) + 1]])]

MergeAxes(t, groups) ==
    LET start(j) == SumSeq(SubSeq(groups, 1, j - 1))
    IN  [shape |-> AsSeq([j \in 1..Len(groups) |->
                       Prod(SubSeq(t.shape, start(j) + 1, start(j) + groups[j]))]),
         data  |-> t.data]

rearrange(t, pattern) == MergeAxes(Permute(t, pattern.perm), pattern.groups)

\* "B T C H W -> B H W (C T)": the two merged axes in the other order
PatternDecoderIn_CT == [perm |-> <<1, 4, 5, 3, 2>>, groups |-> <<1, 1, 1, 2>>]

\* "B T C H W -> B H W (T C)"
PatternDecoderIn == [perm |-> <<1, 4, 5, 2, 3>>, groups |-> <<1, 1, 1, 2>>]
\* "B H W F -> B F H W"
PatternOut == [perm |-> <<1, 4, 2, 3>>, groups |-> <<1, 1, 1, 1>>]

(***************************************************************************)
(* Inputs.  Batch(k, p, v) is a CDBInput: year1.sits is the ramp k*n with  *)
(* a spike v at element p, so that every element of a tensor can be told   *)
(* from the others; label has DimL temporal slots, slot 0 marking the     *)
(* first k pixels.                                                         *)
(***************************************************************************)
SitsShape == <<DimB, DimT, DimC, DimH, DimW>>
LabelShape == <<DimB, DimL, DimH, DimW>>

Batch(k, p, v) ==
    [year1 |->
        [sits      |-> [shape |-> SitsShape,
                        data  |-> AsSeq([n \in 1..Prod(SitsShape) |->
                                      k * n + (IF n = p THEN v ELSE 0)])],
         positions |-> [shape |-> <<DimB, DimT>>,
                        data  |-> AsSeq([n \in 1..(DimB * DimT) |-> (n - 1) % DimT])],
         pad_mask  |-> [shape |-> <<DimB, DimT>>,
                        data  |-> AsSeq([n \in 1..(DimB * DimT) |->
                                      (k % 2 = 0) /\ (n = DimB * DimT)])]],
     label |-> [shape |-> LabelShape,
                data  |-> AsSeq([n \in 1..Prod(LabelShape) |->
                              LET i   == Unravel(n - 1, LabelShape, Strides(LabelShape))
                                  pix == (i[1] * DimH + i[3]) * DimW + i[4]
                              IN  ((IF pix < k THEN 1 ELSE 0) + i[2]) % DimF])]]

BatchIds == 1..NBatches

\* the batches the hooks are driven with
Batches == AsSeq([k \in BatchIds |-> Batch(k, k, k - 1)])

\* the inputs forward is checked on
FwdInputs == {Batch(k, p, v) : k \in 0..MaxScale, p \in 1..Prod(SitsShape),
                               v \in 1..MaxSpike}

Devices == {"cpu", "cuda:0"}
Exceptions == {"RuntimeError", "EinopsError"}

(***************************************************************************)
(* Collaborators of the module.  ALISE, the decoder, the loss and bs are   *)
(* black boxes to AliseFSSeg; each is a fixed function here.               *)
(***************************************************************************)
\* ALISE.forward(sits, positions, pad_mask) -> (B, T, C, H, W)
ModelForward(sits, positions, pad_mask) ==
    [shape |-> sits.shape,
     data  |-> LET st == Strides(sits.shape)
               IN  AsSeq([n \in 1..Numel(sits) |->
                      LET i == Unravel(n - 1, sits.shape, st)
                      IN  IF At(pad_mask, <<i[1], i[2]>>) THEN 0
                          ELSE sits.data[n] + At(positions, <<i[1], i[2]>>)])]

\* the decoder: (B, H, W, K) -> (B, H, W, F), a linear map of the last axis
DecoderWeight(f, k) == ((f + 1) * (k + 1)) % (DimF + 1)

Decoder(y) ==
    LET sh == <<y.shape[1], y.shape[2], y.shape[3], DimF>>
        st == Strides(sh)
        K  == y.shape[4]
    IN  [shape |-> sh,
         data  |-> AsSeq([n \in 1..Prod(sh) |->
                       LET i == Unravel(n - 1, sh, st)
                       IN  SumSeq(AsSeq([k \in 1..K |->
                               DecoderWeight(i[4], k - 1)
                                 * At(y, <<i[1], i[2], i[3], k - 1>>)]))])]

\* index of the first largest element of a sequence, 0-based (torch.argmax)
ArgMax(s) == (CHOOSE i \in 1..Len(s) :
                 /\ \A j \in 1..Len(s) : s[j] <= s[i]
                 /\ \A j \in 1..(i - 1) : s[j] < s[i]) - 1

\* the scores of one pixel of a (B, F, H, W) tensor
Scores(out, b, h, w) ==
    AsSeq([f \in 1..out.shape[2] |-> At(out, <<b, f - 1, h, w>>)])

\* TemplateModule.loss(out, target): out (B, F, H, W), target (B, H, W)
Loss(out, target) ==
    SumSeq(AsSeq([n \in 1..Numel(target) |->
               LET i == Unravel(n - 1, target.shape, Strides(target.shape))
                   s == Scores(out, i[1], i[2], i[3])
               IN  s[ArgMax(s) + 1] - s[target.data[n] + 1]]))

\* TemplateModule.bs
bs == DimB

(***************************************************************************)
(* forward and shared_step                                                 *)
(***************************************************************************)
\* t[:, i, ...]
SelectAxis2(t, i) ==
    LET sh == <<t.shape[1]>> \o SubSeq(t.shape, 3, Len(t.shape))
        st == Strides(sh)
    IN  [shape |-> sh,
         data  |-> AsSeq([n \in 1..Prod(sh) |->
                       LET j == Unravel(n - 1, sh, st)
                       IN  At(t, <<j[1], i>> \o SubSeq(j, 2, Len(j)))])]

\* the tensors of one run of forward: the model's output, what the decoder
\* is fed and gives back, and the value returned
ForwardTrace(batch) ==
    LET x       == ModelForward(batch.year1.sits, batch.year1.positions,
                                batch.year1.pad_mask)
        dec_in  == rearrange(x, PatternDecoderIn)
        dec_out == Decoder(dec_in)
    IN  [x |-> x, dec_in |-> dec_in, dec_out |-> dec_out,
         ret |-> rearrange(dec_out, PatternOut)]

forward(batch) == ForwardTrace(batch).ret

Target(batch) == SelectAxis2(batch.label, 0)

shared_step(batch) ==
    LET out  == forward(batch)
        loss == Loss(out, Target(batch))
    IN  [out |-> out, loss |-> loss]


(***************************************************************************)
(* The metric collection (torchmetrics.MetricCollection): scalar metrics,  *)
(* each an accumulator.  acc is the share of pixels whose arg-max class is *)
(* the target, mae the mean distance between the two, both in percent.     *)
(***************************************************************************)
MetricNames == <<"acc", "mae">>

FreshState == [acc |-> [num |-> 0, den |-> 0], mae |-> [num |-> 0, den |-> 0]]

Abs(a) == IF a < 0 THEN -a ELSE a

Preds(out) ==
    LET sh == <<out.shape[1], out.shape[3], out.shape[4]>>
        st == Strides(sh)
    IN  AsSeq([n \in 1..Prod(sh) |->
            LET i == Unravel(n - 1, sh, st) IN ArgMax(Scores(out, i[1], i[2], i[3]))])

\* what update(out, target) adds to each metric
Increments(out, target) ==
    LET p == Preds(out)
        N == Numel(target)
    IN  [acc |-> [num |-> Cardinality({n \in 1..N : p[n] = target.data[n]}),
                  den |-> N],
         mae |-> [num |-> SumSeq(AsSeq([n \in 1..N |-> Abs(p[n] - target.data[n])])),
                  den |-> N]]

\* MetricCollection.update on the first n metrics of the collection (all of
\* them unless a metric's update raised), inc being Increments(out, target)
UpdateFirst(cell, inc, n) ==
    [name \in DOMAIN cell |->
        IF \E j \in 1..n : MetricNames[j] = name
        THEN [num |-> cell[name].num + inc[name].num,
              den |-> cell[name].den + inc[name].den]
        ELSE cell[name]]

\* an update that keeps the last batch only
update_overwrite(cell, inc) == inc

update(cell, inc) == UpdateFirst(cell, inc, Len(MetricNames))

\* a metric's value; mae of nothing is nan (-1 here), acc of nothing is 0
MetricValue(name, acc) ==
    IF acc.den = 0 THEN (IF name = "acc" THEN 0 ELSE -1)
    ELSE (100 * acc.num) \div acc.den

\* MetricCollection.compute(): prefixed name -> value, on the module's device
compute(m, cell, dev) ==
    AsSeq([j \in 1..Len(MetricNames) |->
        [k |-> m.prefix \o MetricNames[j],
         v |-> MetricValue(MetricNames[j], cell[MetricNames[j]]),
         dev |-> dev]])

\* a compute() followed by reset()
state_after_compute_reset(cell) == FreshState

\* the state compute() leaves in the collection: all of it, compute resets
\* nothing
state_after_compute(cell) == cell

\* the value left where it is
to_cpu_noop(item) == item

\* Tensor.to(device="cpu", non_blocking=True)
to_cpu(item) == [item EXCEPT !.dev = "cpu"]

\* a shallow copy: a new prefix on the state of m itself
clone_shared(h, m, prefix, at) ==
    [obj |-> [prefix |-> prefix, ref |-> m.ref], heap |-> h]

\* MetricCollection.clone(prefix) with the heap h: a new object at reference
\* at, holding a copy of the state of m
clone(h, m, prefix, at) ==
    [obj |-> [prefix |-> prefix, ref |-> at], heap |-> (at :> h[m.ref]) @@ h]

\* train_config.metrics, a collection no update has reached yet
ConfigMetrics == [prefix |-> "", ref |-> "metrics"]
ConfigHeap == [r \in {"metrics"} |-> FreshState]

\* forward and shared_step on the k-th batch of Batches, and what
\* update(out, batch.label[:, 0, ...]) then adds, worked out once for the run
TraceOf == AsSeq([k \in BatchIds |-> ForwardTrace(Batches[k])])
StepOf == AsSeq([k \in BatchIds |-> shared_step(Batches[k])])
IncOf == AsSeq([k \in BatchIds |-> Increments(StepOf[k].out, Target(Batches[k]))])

(***************************************************************************)
(* The logging sink.  log writes one entry, log_dict one per item of its   *)
(* argument; fx is the hook that wrote it.  A flag not passed is "None".   *)
(***************************************************************************)
LogEntry(name, value, dev, kind, on_step, on_epoch, prog_bar, fx) ==
    [name |-> name, value |-> value, dev |-> dev, kind |-> kind,
     on_step |-> on_step, on_epoch |-> on_epoch, prog_bar |-> prog_bar,
     batch_size |-> bs, fx |-> fx]

\* a log_dict that lets only the first item through
log_dict_first(mapping, kind, fx) ==
    AsSeq([j \in 1..(IF Len(mapping) > 0 THEN 1 ELSE 0) |->
        LogEntry(mapping[j].k, mapping[j].v, mapping[j].dev, kind,
                 "None", "True", "True", fx)])

\* log_dict(mapping, on_epoch=True, batch_size=self.bs, prog_bar=True)
log_dict(mapping, kind, fx) ==
    AsSeq([j \in 1..Len(mapping) |->
        LogEntry(mapping[j].k, mapping[j].v, mapping[j].dev, kind,
                 "None", "True", "True", fx)])

(***************************************************************************)
(* Calls.  last records the call just made: the batch it was given, what   *)
(* it returned or raised, the loss shared_step gave it, the results of its *)
(* compute() calls, what it passed to log_dict, the entries it wrote, for  *)
(* forward the tensors of the run, and for an epoch end the batches of the *)
(* epoch it ends (steps).                                                  *)
(***************************************************************************)
Call(op, k) ==
    [op |-> op, batch |-> k, ret |-> <<>>, loss |-> <<>>, trace |-> <<>>,
     raised |-> <<>>, thrown |-> <<>>, computes |-> <<>>, logarg |-> <<>>,
     emitted |-> <<>>, steps |-> <<>>]

\* the call ended by the exception e its callee at raised: nothing catches it
Raise(c, at, e) == [c EXCEPT !.thrown = <<[at |-> at, exc |-> e]>>, !.raised = <<e>>]

EmptyBag == [k \in BatchIds |-> 0]

Bump(bag, k) == [bag EXCEPT ![k] = @ + 1]

\* a run ends at the first call that raises, or after MaxCalls calls; a
\* callee raises (f is not "ok") in the first MaxFaultCalls calls only
CanCall(f) ==
    /\ last.raised = <<>>
    /\ ncalls < (IF f = "ok" THEN MaxCalls ELSE MaxFaultCalls)

Phases == {"train", "val", "test"}

\* __init__ assigns no save_test_metrics: the attribute is not there
NoAttribute == [exists |-> FALSE, value |-> <<>>]

\* step hooks that log the loss averaged over the batch, or log at all
training_log_mean(loss, dev) ==
    <<LogEntry("train_loss", loss \div bs, dev, "tensor", "True", "True", "True",
               "training_step")>>
validation_log_loss(loss, dev) ==
    <<LogEntry("val_loss", loss, dev, "tensor", "True", "True", "True",
               "validation_step")>>

\* what each step hook writes to the sink, given the loss of its shared_step
training_log(loss, dev) ==
    <<LogEntry("train_loss", loss, dev, "tensor", "True", "True", "True",
               "training_step")>>
validation_log(loss, dev) == <<>>
test_log(loss, dev) == <<>>

Init ==
    LET c1 == clone(ConfigHeap, ConfigMetrics, "train_", "train")
        c2 == clone(c1.heap, ConfigMetrics, "val_", "val")
        c3 == clone(c2.heap, ConfigMetrics, "test_", "test")
    IN
    /\ train_metrics = c1.obj
    /\ val_metrics = c2.obj
    /\ test_metrics = c3.obj
    /\ heap = c3.heap
    /\ save_test_metrics = NoAttribute
    /\ logged = <<>>
    /\ last = Call("__init__", 0)
    /\ device \in Devices
    /\ hist = [ph \in Phases |-> EmptyBag]
    /\ since = [ph \in Phases |-> EmptyBag]
    /\ epochs = [ph \in Phases |-> 0]
    /\ ncalls = 0

\* forward, tr being its run on the batch (the k-th of Batches, or 0)
call_forward(tr, k, f, e) ==
    /\ CanCall(f)
    /\ ncalls' = ncalls + 1
    /\ IF f \in {"model", "decoder"}
       THEN last' = Raise(Call("forward", k), f, e)
       ELSE last' = [Call("forward", k) EXCEPT !.trace = <<tr>>]
    /\ UNCHANGED <<train_metrics, val_metrics, test_metrics, save_test_metrics,
                   heap, logged, device, hist, since, epochs>>

call_shared_step(k, f, e) ==
    /\ CanCall(f)
    /\ ncalls' = ncalls + 1
    /\ IF f \in {"model", "decoder", "loss"}
       THEN last' = Raise(Call("shared_step", k), f, e)
       ELSE last' = [Call("shared_step", k) EXCEPT !.loss = <<StepOf[k].loss>>]
    /\ UNCHANGED <<train_metrics, val_metrics, test_metrics, save_test_metrics,
                   heap, logged, device, hist, since, epochs>>

\* a step hook that updates its metrics before it lets the exception go
StepRaises_updates(op, k, f, e) ==
    /\ last' = Raise(Call(op, k), f, e)
    /\ heap' = [heap EXCEPT ![train_metrics.ref] = update(@, IncOf[k])]
    /\ UNCHANGED <<logged, hist, since>>

\* a step hook whose shared_step raises (the model, the decoder or the loss)
StepRaises(op, k, f, e) ==
    /\ last' = Raise(Call(op, k), f, e)
    /\ UNCHANGED <<heap, logged, hist, since>>

training_step(k, f, e, n) ==
    /\ CanCall(f)
    /\ ncalls' = ncalls + 1
    /\ IF f \in {"model", "decoder", "loss"}
       THEN StepRaises("training_step", k, f, e)
       ELSE LET r   == StepOf[k]
                ref == train_metrics.ref
                c   == [Call("training_step", k) EXCEPT !.loss = <<r.loss>>]
                out == training_log(r.loss, device)
            IN  IF f = "update"
                THEN /\ heap' = [heap EXCEPT ![ref] = UpdateFirst(@, IncOf[k], n)]
                     /\ last' = Raise(c, f, e)
                     /\ UNCHANGED <<logged, hist, since>>
                ELSE /\ heap' = [heap EXCEPT ![ref] = update(@, IncOf[k])]
                     /\ hist' = [hist EXCEPT !.train = Bump(@, k)]
                     /\ since' = [since EXCEPT !.train = Bump(@, k)]
                     /\ IF f = "log"
                        THEN /\ last' = Raise(c, f, e)
                             /\ logged' = logged
                        ELSE /\ logged' = logged \o out
                             /\ last' = [c EXCEPT !.emitted = out,
                                                  !.ret = <<r.loss>>]
    /\ UNCHANGED <<train_metrics, val_metrics, test_metrics, save_test_metrics,
                   device, epochs>>

validation_step(k, f, e, n) ==
    /\ CanCall(f)
    /\ ncalls' = ncalls + 1
    /\ IF f \in {"model", "decoder", "loss"}
       THEN StepRaises("validation_step", k, f, e)
       ELSE LET r   == StepOf[k]
                ref == val_metrics.ref
                c   == [Call("validation_step", k) EXCEPT !.loss = <<r.loss>>]
                out == validation_log(r.loss, device)
            IN  IF f = "update"
                THEN /\ heap' = [heap EXCEPT ![ref] = UpdateFirst(@, IncOf[k], n)]
                     /\ last' = Raise(c, f, e)
                     /\ UNCHANGED <<logged, hist, since>>
                ELSE /\ heap' = [heap EXCEPT ![ref] = update(@, IncOf[k])]
                     /\ hist' = [hist EXCEPT !.val = Bump(@, k)]
                     /\ since' = [since EXCEPT !.val = Bump(@, k)]
                     /\ logged' = logged \o out
                     /\ last' = [c EXCEPT !.emitted = out]
    /\ UNCHANGED <<train_metrics, val_metrics, test_metrics, save_test_metrics,
                   device, epochs>>

test_step(k, f, e, n) ==
    /\ CanCall(f)
    /\ ncalls' = ncalls + 1
    /\ IF f \in {"model", "decoder", "loss"}
       THEN StepRaises("test_step", k, f, e)
       ELSE LET r   == StepOf[k]
                ref == test_metrics.ref
                c   == [Call("test_step", k) EXCEPT !.loss = <<r.loss>>]
                out == test_log(r.loss, device)
            IN  IF f = "update"
                THEN /\ heap' = [heap EXCEPT ![ref] = UpdateFirst(@, IncOf[k], n)]
                     /\ last' = Raise(c, f, e)
                     /\ UNCHANGED <<logged, hist, since>>
                ELSE /\ heap' = [heap EXCEPT ![ref] = update(@, IncOf[k])]
                     /\ hist' = [hist EXCEPT !.test = Bump(@, k)]
                     /\ since' = [since EXCEPT !.test = Bump(@, k)]
                     /\ logged' = logged \o out
                     /\ last' = [c EXCEPT !.emitted = out]
    /\ UNCHANGED <<train_metrics, val_metrics, test_metrics, save_test_metrics,
                   device, epochs>>

\* the first n items of a mapping or of a sequence of entries
FirstN(seq, n) == SubSeq(seq, 1, n)

on_train_epoch_end(f, e, n) ==
    /\ CanCall(f)
    /\ ncalls' = ncalls + 1
    /\ LET ref     == train_metrics.ref
           c       == [Call("on_train_epoch_end", 0) EXCEPT !.steps = <<since.train>>]
           \* self.train_metrics.compute(): the result is dropped
           first   == compute(train_metrics, heap[ref], device)
           c1      == [c EXCEPT !.computes = <<[on |-> ref, result |-> first]>>]
           \* log_dict(self.train_metrics, ...): the sink takes the metric
           \* objects and reads their values off the collection
           entries == log_dict(compute(train_metrics, heap[ref], device),
                               "metric", "on_train_epoch_end")
           c2      == [c1 EXCEPT !.logarg =
                          <<[kind |-> "collection", coll |-> ref, mapping |-> <<>>]>>]
       IN  IF f = "compute"
           THEN /\ last' = Raise(c, f, e)
                /\ UNCHANGED <<heap, logged, since, epochs>>
           ELSE IF f = "log_dict"
           THEN /\ last' = Raise([c2 EXCEPT !.emitted = FirstN(entries, n)], f, e)
                /\ logged' = logged \o FirstN(entries, n)
                /\ heap' = [heap EXCEPT ![ref] = state_after_compute(@)]
                /\ UNCHANGED <<since, epochs>>
           ELSE /\ last' = [c2 EXCEPT !.emitted = entries]
                /\ logged' = logged \o entries
                /\ heap' = [heap EXCEPT ![ref] = state_after_compute(@)]
                /\ since' = [since EXCEPT !.train = EmptyBag]
                /\ epochs' = [epochs EXCEPT !.train = @ + 1]
    /\ UNCHANGED <<train_metrics, val_metrics, test_metrics, save_test_metrics,
                   device, hist>>

\* a validation epoch end that keeps its outputs for readout as the test one does
on_validation_epoch_end_saves(f, e, n) ==
    /\ CanCall(f)
    /\ ncalls' = ncalls + 1
    /\ LET ref     == val_metrics.ref
           c       == [Call("on_validation_epoch_end", 0) EXCEPT !.steps = <<since.val>>]
           outputs == compute(val_metrics, heap[ref], device)
           entries == log_dict(outputs, "tensor", "on_validation_epoch_end")
           c2      == [c EXCEPT
                          !.computes = <<[on |-> ref, result |-> outputs]>>,
                          !.logarg = <<[kind |-> "mapping", coll |-> "",
                                        mapping |-> outputs]>>]
       IN  IF f = "compute"
           THEN /\ last' = Raise(c, f, e)
                /\ UNCHANGED <<heap, logged, since, epochs, save_test_metrics>>
           ELSE IF f = "log_dict"
           THEN /\ last' = Raise([c2 EXCEPT !.emitted = FirstN(entries, n)], f, e)
                /\ logged' = logged \o FirstN(entries, n)
                /\ heap' = [heap EXCEPT ![ref] = state_after_compute(@)]
                /\ UNCHANGED <<since, epochs, save_test_metrics>>
           ELSE /\ last' = [c2 EXCEPT !.emitted = entries]
                /\ logged' = logged \o entries
                /\ heap' = [heap EXCEPT ![ref] = state_after_compute(@)]
                /\ since' = [since EXCEPT !.val = EmptyBag]
                /\ epochs' = [epochs EXCEPT !.val = @ + 1]
                /\ save_test_metrics' = [exists |-> TRUE, value |-> outputs]
    /\ UNCHANGED <<train_metrics, val_metrics, test_metrics, device, hist>>

on_validation_epoch_end(f, e, n) ==
    /\ CanCall(f)
    /\ ncalls' = ncalls + 1
    /\ LET ref     == val_metrics.ref
           c       == [Call("on_validation_epoch_end", 0) EXCEPT !.steps = <<since.val>>]
           outputs == compute(val_metrics, heap[ref], device)
           entries == log_dict(outputs, "tensor", "on_validation_epoch_end")
           c2      == [c EXCEPT
                          !.computes = <<[on |-> ref, result |-> outputs]>>,
                          !.logarg = <<[kind |-> "mapping", coll |-> "",
                                        mapping |-> outputs]>>]
       IN  IF f = "compute"
           THEN /\ last' = Raise(c, f, e)
                /\ UNCHANGED <<heap, logged, since, epochs>>
           ELSE IF f = "log_dict"
           THEN /\ last' = Raise([c2 EXCEPT !.emitted = FirstN(entries, n)], f, e)
                /\ logged' = logged \o FirstN(entries, n)
                /\ heap' = [heap EXCEPT ![ref] = state_after_compute(@)]
                /\ UNCHANGED <<since, epochs>>
           ELSE /\ last' = [c2 EXCEPT !.emitted = entries]
                /\ logged' = logged \o entries
                /\ heap' = [heap EXCEPT ![ref] = state_after_compute(@)]
                /\ since' = [since EXCEPT !.val = EmptyBag]
                /\ epochs' = [epochs EXCEPT !.val = @ + 1]
    /\ UNCHANGED <<train_metrics, val_metrics, test_metrics, save_test_metrics,
                   device, hist>>

on_test_epoch_end(f, e, n) ==
    /\ CanCall(f)
    /\ ncalls' = ncalls + 1
    /\ LET ref      == test_metrics.ref
           c        == [Call("on_test_epoch_end", 0) EXCEPT !.steps = <<since.test>>]
           computed == compute(test_metrics, heap[ref], device)
           outputs  == AsSeq([j \in 1..Len(computed) |-> to_cpu(computed[j])])
           entries  == log_dict(outputs, "tensor", "on_test_epoch_end")
           c2       == [c EXCEPT
                           !.computes = <<[on |-> ref, result |-> computed]>>,
                           !.logarg = <<[kind |-> "mapping", coll |-> "",
                                         mapping |-> outputs]>>]
       IN  IF f = "compute"
           THEN /\ last' = Raise(c, f, e)
                /\ UNCHANGED <<heap, logged, since, epochs, save_test_metrics>>
           ELSE IF f = "log_dict"
           THEN /\ last' = Raise([c2 EXCEPT !.emitted = FirstN(entries, n)], f, e)
                /\ logged' = logged \o FirstN(entries, n)
                /\ heap' = [heap EXCEPT ![ref] = state_after_compute(@)]
                /\ UNCHANGED <<since, epochs, save_test_metrics>>
           ELSE /\ last' = [c2 EXCEPT !.emitted = entries]
                /\ logged' = logged \o entries
                /\ heap' = [heap EXCEPT ![ref] = state_after_compute(@)]
                /\ since' = [since EXCEPT !.test = EmptyBag]
                /\ epochs' = [epochs EXCEPT !.test = @ + 1]
                /\ save_test_metrics' = [exists |-> TRUE, value |-> outputs]
    /\ UNCHANGED <<train_metrics, val_metrics, test_metrics, device, hist>>

(***************************************************************************)
(* The trainer calls the methods in any order, with any batch, and a       *)
(* callee may raise one of Exceptions, n being how many metrics (items) a  *)
(* failed update (log_dict) got through before it raised.                  *)
(***************************************************************************)
Partial == 0..(Len(MetricNames) - 1)

\* what the callees of a method do: all return ("ok"), or the one at a point
\* raises
Outcomes(points) == {<<"ok", "">>} \cup (points \X Exceptions)

\* how far a callee got before it raised matters for update and log_dict only
PartialOf(f) == IF f \in {"update", "log_dict"} THEN Partial ELSE {0}

Next ==
    \/ \E k \in BatchIds, o \in Outcomes({"model", "decoder"}) :
          call_forward(TraceOf[k], k, o[1], o[2])
    \/ \E k \in BatchIds, o \in Outcomes({"model", "decoder", "loss"}) :
          call_shared_step(k, o[1], o[2])
    \/ \E k \in BatchIds,
          o \in Outcomes({"model", "decoder", "loss", "update", "log"}) :
          \E n \in PartialOf(o[1]) : training_step(k, o[1], o[2], n)
    \/ \E k \in BatchIds, o \in Outcomes({"model", "decoder", "loss", "update"}) :
          \E n \in PartialOf(o[1]) : validation_step(k, o[1], o[2], n)
    \/ \E k \in BatchIds, o \in Outcomes({"model", "decoder", "loss", "update"}) :
          \E n \in PartialOf(o[1]) : test_step(k, o[1], o[2], n)
    \/ \E o \in Outcomes({"compute", "log_dict"}) :
          \E n \in PartialOf(o[1]) : on_train_epoch_end(o[1], o[2], n)
    \/ \E o \in Outcomes({"compute", "log_dict"}) :
          \E n \in PartialOf(o[1]) : on_validation_epoch_end(o[1], o[2], n)
    \/ \E o \in Outcomes({"compute", "log_dict"}) :
          \E n \in PartialOf(o[1]) : on_test_epoch_end(o[1], o[2], n)

Spec == Init /\ [][Next]_vars

\* forward alone, called once, on every input of FwdInputs
NextFwd ==
    /\ ncalls = 0
    /\ \E b \in FwdInputs : call_forward(ForwardTrace(b), 0, "ok", "")

SpecFwd == Init /\ [][NextFwd]_vars

(***************************************************************************)
(* Vocabulary of the properties                                            *)
(***************************************************************************)
Completed(op) == last.op = op /\ last.raised = <<>>

Failed(op, points) ==
    last.op = op /\ last.raised # <<>> /\ last.thrown[1].at \in points

Obj(ph) == CASE ph = "train" -> train_metrics
             [] ph = "val"   -> val_metrics
             [] OTHER        -> test_metrics

Cell(ph) == heap[Obj(ph).ref]

StepHook(ph) == CASE ph = "train" -> "training_step"
                  [] ph = "val"   -> "validation_step"
                  [] OTHER        -> "test_step"

EpochEnd(ph) == CASE ph = "train" -> "on_train_epoch_end"
                  [] ph = "val"   -> "on_validation_epoch_end"
                  [] OTHER        -> "on_test_epoch_end"

StepHooks == {StepHook(ph) : ph \in Phases}
EpochEnds == {EpochEnd(ph) : ph \in Phases}

BagSize(bag) == SumSeq(AsSeq([k \in 1..NBatches |-> bag[k]]))

\* the accumulators of a collection that received exactly the updates of bag
Aggregate(bag) ==
    [name \in {"acc", "mae"} |->
        [num |-> SumSeq(AsSeq([k \in 1..NBatches |-> bag[k] * IncOf[k][name].num])),
         den |-> SumSeq(AsSeq([k \in 1..NBatches |-> bag[k] * IncOf[k][name].den]))]]

\* entries: one entry per metric name, prefixed, whose value aggregates bag
EntriesAggregate(entries, prefix, bag) ==
    /\ Len(entries) = Len(MetricNames)
    /\ \A j \in 1..Len(MetricNames) :
          /\ entries[j].name = prefix \o MetricNames[j]
          /\ entries[j].value = MetricValue(MetricNames[j], Aggregate(bag)[MetricNames[j]])

\* the same mapping with every value on the cpu
OnCpu(mapping) == AsSeq([j \in 1..Len(mapping) |-> [mapping[j] EXCEPT !.dev = "cpu"]])

\* entries are the items of mapping, one entry each, logged per epoch
EntriesOfMapping(entries, mapping) ==
    /\ Len(entries) = Len(mapping)
    /\ \A j \in 1..Len(mapping) :
          /\ entries[j].name = mapping[j].k
          /\ entries[j].value = mapping[j].v
          /\ entries[j].dev = mapping[j].dev
          /\ entries[j].on_epoch = "True"
          /\ entries[j].prog_bar = "True"

(***************************************************************************)
(* C1: the three collections never share accumulated state: a step hook    *)
(* of one phase leaves the state and the computed values of the other two  *)
(* phases' collections, and the three objects, as they were.               *)
(***************************************************************************)
C1_PhasesKeepApart ==
    [][\A ph \in Phases :
          (last'.op \in StepHooks /\ last'.op # StepHook(ph)) =>
             /\ Obj(ph)' = Obj(ph)
             /\ heap'[Obj(ph).ref] = heap[Obj(ph).ref]
             /\ compute(Obj(ph), heap'[Obj(ph).ref], device)
                   = compute(Obj(ph), heap[Obj(ph).ref], device)]_vars

C1_Witness ==
    /\ Completed("test_step")
    /\ BagSize(hist.train) > 0
    /\ BagSize(hist.val) > 0
    /\ Cell("train") # Cell("test")

C3_TrainLossLogged ==
    [][(last'.op = "training_step" /\ last'.raised = <<>>) =>
          LET loss == StepOf[last'.batch].loss
          IN  /\ Len(logged') = Len(logged) + 1
              /\ SubSeq(logged', 1, Len(logged)) = logged
              /\ logged'[Len(logged')].name = "train_loss"
              /\ logged'[Len(logged')].value = loss
              /\ logged'[Len(logged')].on_step = "True"
              /\ logged'[Len(logged')].on_epoch = "True"
              /\ logged'[Len(logged')].prog_bar = "True"
              /\ last'.ret = <<loss>>]_vars

C3_Witness ==
    /\ Completed("training_step")
    /\ last.ret # <<>>
    /\ last.ret[1] > 0
    /\ Len(logged) >= 2

(***************************************************************************)
(* C4: once on_test_epoch_end has returned, every value of                 *)
(* save_test_metrics is on the cpu, its keys are those of                  *)
(* test_metrics.compute(), and it is the mapping the hook gave log_dict.   *)
(***************************************************************************)
C4_SavedOnHost ==
    /\ save_test_metrics.exists =>
          \A j \in 1..Len(save_test_metrics.value) :
             save_test_metrics.value[j].dev = "cpu"
    /\ Completed("on_test_epoch_end") =>
          LET computed == compute(test_metrics, Cell("test"), device)
          IN  /\ save_test_metrics.exists
              /\ Len(save_test_metrics.value) = Len(computed)
              /\ \A j \in 1..Len(computed) :
                    save_test_metrics.value[j].k = computed[j].k
              /\ last.logarg = <<[kind |-> "mapping", coll |-> "",
                                  mapping |-> save_test_metrics.value]>>

C4_Witness ==
    /\ Completed("on_test_epoch_end")
    /\ device = "cuda:0"
    /\ BagSize(hist.test) >= 2
    /\ save_test_metrics.value # <<>>

(***************************************************************************)
(* C5: for a model output of shape (B,T,C,H,W), forward feeds the decoder  *)
(* a (B,H,W,T*C) tensor whose feature t*C+c at (b,h,w) is the output's     *)
(* element (b,t,c,h,w), and returns a (B,F,H,W) tensor whose element       *)
(* (b,f,h,w) is the decoder output's element (b,h,w,f).                    *)
(***************************************************************************)
C5_ForwardRearranges ==
    (last.op = "forward" /\ last.trace # <<>>) =>
        LET tr == last.trace[1]
            x  == tr.x
            B  == x.shape[1]
            T  == x.shape[2]
            C  == x.shape[3]
            H  == x.shape[4]
            W  == x.shape[5]
            F  == DimF
        IN  /\ Len(x.shape) = 5
            /\ tr.dec_in.shape = <<B, H, W, T * C>>
            /\ \A b \in 0..(B - 1), t \in 0..(T - 1), c \in 0..(C - 1),
                  h \in 0..(H - 1), w \in 0..(W - 1) :
                  At(tr.dec_in, <<b, h, w, t * C + c>>) = At(x, <<b, t, c, h, w>>)
            /\ tr.dec_out.shape = <<B, H, W, F>>
            /\ tr.ret.shape = <<B, F, H, W>>
            /\ \A b \in 0..(B - 1), f \in 0..(F - 1), h \in 0..(H - 1),
                  w \in 0..(W - 1) :
                  At(tr.ret, <<b, f, h, w>>) = At(tr.dec_out, <<b, h, w, f>>)

C5_Witness ==
    /\ last.op = "forward"
    /\ last.trace # <<>>
    /\ last.trace[1].x.shape = SitsShape
    /\ DimT > 1 /\ DimC > 1
    /\ At(last.trace[1].x, <<0, 0, 1, 0, 0>>) # At(last.trace[1].x, <<0, 1, 0, 0, 0>>)
    /\ At(last.trace[1].dec_out, <<0, 0, 0, 0>>) # At(last.trace[1].dec_out, <<0, 0, 0, 1>>)

(***************************************************************************)
(* C6: validation_step and test_step write nothing to the sink, so every   *)
(* val_ or test_ entry comes from the phase's epoch-end hook; a            *)
(* training_step that returns writes one entry.                            *)
(***************************************************************************)
C6_StepsDoNotLog ==
    /\ [](\A i \in 1..Len(logged) :
             /\ logged[i].fx \notin {"validation_step", "test_step"}
             /\ \A j \in 1..Len(MetricNames) :
                   /\ logged[i].name = "val_" \o MetricNames[j]
                         => logged[i].fx = "on_validation_epoch_end"
                   /\ logged[i].name = "test_" \o MetricNames[j]
                         => logged[i].fx = "on_test_epoch_end")
    /\ [][/\ last'.op \in {"validation_step", "test_step"} => logged' = logged
          /\ (last'.op = "training_step" /\ last'.raised = <<>>)
                => Len(logged') = Len(logged) + 1]_vars

C6_Witness ==
    /\ Completed("validation_step")
    /\ epochs.val >= 1
    /\ epochs.test >= 1
    /\ \E i \in 1..Len(logged) : logged[i].fx = "training_step"

(***************************************************************************)
(* C7 as stated: on_validation_epoch_end and on_test_epoch_end call        *)
(* compute once on their own collection and log exactly the mapping that   *)
(* call returned; on_train_epoch_end calls compute once itself, drops the  *)
(* result and passes the collection to log_dict, and the values logged     *)
(* equal the ones it dropped.                                              *)
(***************************************************************************)
C7_TrainPart ==
    Completed("on_train_epoch_end") =>
        /\ Len(last.computes) = 1
        /\ last.computes[1].on = train_metrics.ref
        /\ last.logarg = <<[kind |-> "collection", coll |-> train_metrics.ref,
                            mapping |-> <<>>]>>
        /\ EntriesOfMapping(last.emitted, last.computes[1].result)

C7_ValPart ==
    Completed("on_validation_epoch_end") =>
        /\ Len(last.computes) = 1
        /\ last.computes[1].on = val_metrics.ref
        /\ last.logarg = <<[kind |-> "mapping", coll |-> "",
                            mapping |-> last.computes[1].result]>>
        /\ EntriesOfMapping(last.emitted, last.computes[1].result)

C7_LogsWhatComputeReturned ==
    /\ C7_TrainPart
    /\ C7_ValPart
    /\ Completed("on_test_epoch_end") =>
          /\ Len(last.computes) = 1
          /\ last.computes[1].on = test_metrics.ref
          /\ last.logarg = <<[kind |-> "mapping", coll |-> "",
                              mapping |-> last.computes[1].result]>>
          /\ EntriesOfMapping(last.emitted, last.computes[1].result)

(***************************************************************************)
(* C7, amended: as stated for the train and validation hooks;              *)
(* on_test_epoch_end calls compute once on the test collection and logs    *)
(* not the mapping that call returned but a new one, with the same keys    *)
(* and values, every value moved to the cpu.                               *)
(***************************************************************************)
C7_TestLogsHostCopy ==
    /\ C7_TrainPart
    /\ C7_ValPart
    /\ Completed("on_test_epoch_end") =>
          /\ Len(last.computes) = 1
          /\ last.computes[1].on = test_metrics.ref
          /\ last.logarg = <<[kind |-> "mapping", coll |-> "",
                              mapping |-> OnCpu(last.computes[1].result)]>>
          /\ EntriesOfMapping(last.emitted, OnCpu(last.computes[1].result))

C7_Witness ==
    /\ Completed("on_test_epoch_end")
    /\ device = "cuda:0"
    /\ epochs.train >= 1
    /\ epochs.val >= 1
    /\ last.logarg[1].mapping # last.computes[1].result

(***************************************************************************)
(* C8: no method resets a collection: an epoch-end hook leaves every       *)
(* collection's state as it was, each collection holds all the updates of  *)
(* its phase since construction, and what an epoch end computes covers the *)
(* updates of the earlier epochs of the phase too.                         *)
(***************************************************************************)
C8_NothingResets ==
    /\ [](/\ ~(last.raised # <<>> /\ last.thrown[1].at = "update") =>
               \A ph \in Phases : Cell(ph) = Aggregate(hist[ph])
          /\ \A ph \in Phases :
               Completed(EpochEnd(ph)) =>
                  \A j \in 1..Len(MetricNames) :
                     last.computes[1].result[j].v =
                        MetricValue(MetricNames[j], Aggregate(hist[ph])[MetricNames[j]]))
    /\ [][last'.op \in EpochEnds => heap' = heap]_vars

C8_Witness ==
    /\ Completed("on_validation_epoch_end")
    /\ epochs.val = 2
    /\ BagSize(last.steps[1]) >= 1
    /\ BagSize(hist.val) > BagSize(last.steps[1])
    /\ last.computes[1].result # compute(val_metrics, Aggregate(last.steps[1]), device)

(***************************************************************************)
(* C9: an exception of a callee leaves the method as it was raised, and    *)
(* the method does nothing more: nothing is returned; when the model, the  *)
(* decoder or the loss raises in a step hook no collection changes and     *)
(* nothing is logged; when update raises in training_step train_loss is    *)
(* not logged; when compute or log_dict raises in on_test_epoch_end,       *)
(* save_test_metrics is not written.                                       *)
(***************************************************************************)
C9_FailuresPropagate ==
    [][last'.raised # <<>> =>
          /\ last'.raised = <<last'.thrown[1].exc>>
          /\ last'.ret = <<>>
          /\ ncalls' = ncalls + 1
          /\ (last'.op \in StepHooks /\ last'.thrown[1].at \in {"model", "decoder", "loss"})
                => /\ heap' = heap
                   /\ logged' = logged
                   /\ save_test_metrics' = save_test_metrics
          /\ (last'.op = "training_step" /\ last'.thrown[1].at = "update")
                => logged' = logged
          /\ (last'.op = "on_test_epoch_end"
                /\ last'.thrown[1].at \in {"compute", "log_dict"})
                => save_test_metrics' = save_test_metrics]_vars

C9_Witness ==
    /\ Failed("on_test_epoch_end", {"log_dict"})
    /\ last.emitted # <<>>
    /\ BagSize(hist.test) > 0
    /\ ~save_test_metrics.exists

(***************************************************************************)
(* C10: save_test_metrics is written by on_test_epoch_end alone: it is     *)
(* not there until an on_test_epoch_end has returned, no other call and no *)
(* failed on_test_epoch_end changes it, and an on_test_epoch_end that      *)
(* returns sets it to its results, the values computed from the test       *)
(* collection moved to the cpu.                                            *)
(***************************************************************************)
C10_OnlyTestEpochEndSaves ==
    /\ [](/\ epochs.test = 0 => save_test_metrics = [exists |-> FALSE, value |-> <<>>]
          /\ epochs.test > 0 => save_test_metrics.exists)
    /\ [][IF last'.op = "on_test_epoch_end" /\ last'.raised = <<>>
          THEN save_test_metrics' =
                  [exists |-> TRUE,
                   value  |-> OnCpu(compute(test_metrics, heap[test_metrics.ref],
                                            device))]
          ELSE save_test_metrics' = save_test_metrics]_vars

C10_Witness ==
    /\ Completed("test_step")
    /\ epochs.test >= 1
    /\ BagSize(since.test) > 0
    /\ save_test_metrics.exists
    /\ save_test_metrics.value # OnCpu(compute(test_metrics, Cell("test"), device))

====
